---- MODULE Spec2Model ----
(***************************************************************************)
(* MpxPartialLoader (crates/oxc_linter/src/loader/partial_loader/mpx.rs):  *)
(* extraction of the <script> blocks of an MPX single-file component.      *)
(*                                                                         *)
(* A document is a sequence of bytes.  An ASCII byte is written as the     *)
(* one-character string of its character; the two bytes of the UTF-8       *)
(* encoding of U+00E9 are written "C3" and "A9".  Offsets are 0-based byte *)
(* offsets as in the Rust source; Option::None is modelled as NONE.        *)
(***************************************************************************)
EXTENDS Integers, Sequences, FiniteSets, TLC

VARIABLES source_text, pointer, results, pc

vars == <<source_text, pointer, results, pc>>

NONE == -1

(***************************************************************************)
(* Bounds of the documents that are explored.                              *)
(***************************************************************************)
MaxFrags == 3
MaxAttrFrags == 3
MaxLangFrags == 5

(***************************************************************************)
(* Markers (super::{SCRIPT_START, SCRIPT_END, COMMENT_START, COMMENT_END}) *)
(***************************************************************************)
SCRIPT_START == <<"<", "s", "c", "r", "i", "p", "t">>
SCRIPT_END == <<"<", "/", "s", "c", "r", "i", "p", "t", ">">>
COMMENT_START == <<"<", "!", "-", "-">>
COMMENT_END == <<"-", "-", ">">>

(***************************************************************************)
(* Byte-string helpers.                                                    *)
(***************************************************************************)
\* &s[lo..hi] with 0-based byte offsets, hi exclusive
Slice(s, lo, hi) == SubSeq(s, lo + 1, hi)

\* &s[lo..]
SliceFrom(s, lo) == SubSeq(s, lo + 1, Len(s))

\* needle occurs in hay at 0-based offset i
IsAt(hay, needle, i) ==
    /\ i >= 0
    /\ i + Len(needle) <= Len(hay)
    /\ hay[i + 1] = needle[1]
    /\ \A k \in 2..Len(needle) : hay[i + k] = needle[k]

RECURSIVE FirstAt(_, _, _)
FirstAt(hay, needle, i) ==
    IF i + Len(needle) > Len(hay) THEN NONE
    ELSE IF IsAt(hay, needle, i) THEN i
    ELSE FirstAt(hay, needle, i + 1)

RECURSIVE LastAt(_, _, _)
LastAt(hay, needle, i) ==
    IF i < 0 THEN NONE
    ELSE IF IsAt(hay, needle, i) THEN i
    ELSE LastAt(hay, needle, i - 1)

\* memchr::memmem::Finder::find: offset of the first occurrence, or NONE
FinderFind(needle, hay) == FirstAt(hay, needle, 0)

\* memchr::memmem::FinderRev::rfind: offset of the last occurrence, or NONE
FinderRfind(needle, hay) == LastAt(hay, needle, Len(hay) - Len(needle))

\* char::is_whitespace, on the bytes of the alphabet
WhiteSpace == {" ", "\t", "\n", "\r"}

RECURSIVE trim_start(_)
trim_start(s) ==
    IF s # <<>> /\ Head(s) \in WhiteSpace THEN trim_start(Tail(s)) ELSE s

RECURSIVE trim_end(_)
trim_end(s) ==
    IF s # <<>> /\ s[Len(s)] \in WhiteSpace
    THEN trim_end(SubSeq(s, 1, Len(s) - 1))
    ELSE s

trim(s) == trim_end(trim_start(s))

\* str::find(|c| pred): offset of the first byte in set C, or NONE
RECURSIVE FirstIn(_, _, _)
FirstIn(s, C, i) ==
    IF i >= Len(s) THEN NONE
    ELSE IF s[i + 1] \in C THEN i
    ELSE FirstIn(s, C, i + 1)

FindChar(s, C) == FirstIn(s, C, 0)

(***************************************************************************)
(* super::find_script_start (Comment-Aware Tag Finder).  Returns, relative *)
(* to `pointer`, the offset just after the next "<script" that is not      *)
(* inside a comment, or NONE.                                              *)
(***************************************************************************)
RECURSIVE FindCandidate(_, _)
FindCandidate(text, from) ==
    LET rel == FinderFind(SCRIPT_START, SliceFrom(text, from))
        cand == from + rel
        cs == FinderRfind(COMMENT_START, Slice(text, 0, cand))
        ceRel == FinderFind(COMMENT_END, SliceFrom(text, cs + Len(COMMENT_START)))
        ce == cs + Len(COMMENT_START) + ceRel
    IN  IF rel = NONE THEN NONE
        ELSE IF cs # NONE /\ ceRel # NONE /\ ce > cand
             THEN FindCandidate(text, ce + Len(COMMENT_END))
             ELSE cand

find_script_start(text, p) ==
    LET cand == FindCandidate(text, p)
    IN  IF cand = NONE THEN NONE ELSE cand + Len(SCRIPT_START) - p

(***************************************************************************)
(* super::find_script_closing_angle (Quote-Aware Boundary Scanner).        *)
(* Returns, relative to `pointer`, the offset of the terminating ">".      *)
(***************************************************************************)
RECURSIVE ScanAngle(_, _, _)
ScanAngle(s, i, state) ==
    IF i > Len(s) THEN NONE
    ELSE IF state = "NORMAL"
         THEN IF s[i] = ">" THEN i - 1
              ELSE IF s[i] = "'" THEN ScanAngle(s, i + 1, "IN_SINGLE_QUOTE")
              ELSE IF s[i] = "\"" THEN ScanAngle(s, i + 1, "IN_DOUBLE_QUOTE")
              ELSE ScanAngle(s, i + 1, "NORMAL")
         ELSE IF state = "IN_SINGLE_QUOTE"
              THEN IF s[i] = "'" THEN ScanAngle(s, i + 1, "NORMAL")
                   ELSE ScanAngle(s, i + 1, state)
              ELSE IF s[i] = "\"" THEN ScanAngle(s, i + 1, "NORMAL")
                   ELSE ScanAngle(s, i + 1, state)

find_script_closing_angle(text, p) == ScanAngle(SliceFrom(text, p), 1, "NORMAL")

(***************************************************************************)
(* oxc_span::SourceType                                                    *)
(***************************************************************************)
SourceTypeOf(l, m, v) == [language |-> l, module_kind |-> m, variant |-> v]

Extensions ==
    { <<"j", "s">>, <<"m", "j", "s">>, <<"c", "j", "s">>, <<"j", "s", "x">>,
      <<"t", "s">>, <<"m", "t", "s">>, <<"c", "t", "s">>, <<"t", "s", "x">> }

\* Result<SourceType, UnknownExtension>
Ok(st) == [ok |-> TRUE, value |-> st]
Err == [ok |-> FALSE]

\* SourceType::from_extension
from_extension(ext) ==
    IF ext \notin Extensions THEN Err
    ELSE Ok(SourceTypeOf(
            IF ext \in {<<"j", "s">>, <<"m", "j", "s">>, <<"c", "j", "s">>, <<"j", "s", "x">>}
            THEN "JavaScript" ELSE "TypeScript",
            IF ext \in {<<"c", "j", "s">>, <<"c", "t", "s">>} THEN "Script" ELSE "Module",
            IF ext \in {<<"t", "s">>, <<"m", "t", "s">>, <<"c", "t", "s">>}
            THEN "Standard" ELSE "Jsx"))

\* SourceType::with_standard(yes)
with_standard(st, yes) ==
    IF yes THEN [st EXCEPT !.variant = "Standard"] ELSE st

mjs == SourceTypeOf("JavaScript", "Module", "Standard")

(***************************************************************************)
(* MpxPartialLoader::extract_lang_attribute                                *)
(***************************************************************************)
\* a slip: TypeScript as the default language
DEFAULT_LANG_TS == <<"t", "s">>

DEFAULT_LANG == <<"m", "j", "s">>
LANG == <<"l", "a", "n", "g">>

\* a slip: a quoted value closed by a quote of either kind
LangValueAnyQuote(rest) ==
    IF rest = <<>> THEN DEFAULT_LANG
    ELSE IF Head(rest) \in {"\"", "'"}
         THEN LET r == Tail(rest)
                  end == FindChar(r, {"\"", "'"})
              IN  IF end = NONE THEN DEFAULT_LANG ELSE Slice(r, 0, end)
         ELSE LET end == FindChar(rest, WhiteSpace \cup {">"})
              IN  IF end = NONE THEN rest ELSE Slice(rest, 0, end)

\* a slip: the closing quote taken into the value
LangValueWithQuote(rest) ==
    IF rest = <<>> THEN DEFAULT_LANG
    ELSE IF Head(rest) \in {"\"", "'"}
         THEN LET r == Tail(rest)
                  end == FindChar(r, {Head(rest)})
              IN  IF end = NONE THEN DEFAULT_LANG ELSE Slice(r, 0, end + 1)
         ELSE LET end == FindChar(rest, WhiteSpace \cup {">"})
              IN  IF end = NONE THEN rest ELSE Slice(rest, 0, end)

\* lines 101-117: the value after `lang` `=` and optional whitespace
LangValue(rest) ==
    IF rest = <<>> THEN DEFAULT_LANG
    ELSE IF Head(rest) \in {"\"", "'"}
         THEN LET r == Tail(rest)
                  end == FindChar(r, {Head(rest)})
              IN  IF end = NONE THEN DEFAULT_LANG ELSE Slice(r, 0, end)
         ELSE LET end == FindChar(rest, WhiteSpace \cup {">"})
              IN  IF end = NONE THEN rest ELSE Slice(rest, 0, end)

\* a slip: the last occurrence of `lang` looked at (rfind for find)
extract_lang_attribute_last(content0) ==
    LET content == trim(content0)
        lang_index == FinderRfind(LANG, content)
        rest == trim_start(SliceFrom(content, lang_index + 4))
    IN  IF lang_index = NONE THEN DEFAULT_LANG
        ELSE IF rest = <<>> \/ Head(rest) # "=" THEN DEFAULT_LANG
        ELSE LangValue(trim_start(Tail(rest)))

extract_lang_attribute(content0) ==
    LET content == trim(content0)
        lang_index == FinderFind(LANG, content)
        rest == trim_start(SliceFrom(content, lang_index + 4))
    IN  IF lang_index = NONE THEN DEFAULT_LANG
        ELSE IF rest = <<>> \/ Head(rest) # "=" THEN DEFAULT_LANG
        ELSE LangValue(trim_start(Tail(rest)))

(***************************************************************************)
(* The steps of MpxPartialLoader::parse_script                             *)
(***************************************************************************)
\* a slip: any whitespace taken as the end of the tag name
TagNameAcceptedWhiteSpace(text, p) ==
    /\ p < Len(text)
    /\ text[p + 1] \in WhiteSpace \cup {">"}

\* a slip: "-" taken as the end of the tag name too
TagNameAcceptedDash(text, p) ==
    /\ p < Len(text)
    /\ text[p + 1] \in {" ", ">", "-"}

\* line 52: self.source_text[*pointer..].starts_with([' ', '>'])
TagNameAccepted(text, p) ==
    /\ p < Len(text)
    /\ text[p + 1] \in {" ", ">"}

\* a slip: script_start_finder (line 37) used directly, comments not looked at
ScriptStartOffsetPlain(text, p) ==
    LET rel == FinderFind(SCRIPT_START, SliceFrom(text, p))
    IN  IF rel = NONE THEN NONE ELSE rel + Len(SCRIPT_START)

\* lines 43-49: the call of find_script_start on the whole document
ScriptStartOffset(text, p) == find_script_start(text, p)

\* a slip: the offset of the ">" taken from the start of the document
ClosingAngleOffsetAbsolute(text, p) ==
    IF find_script_closing_angle(text, p) = NONE THEN NONE
    ELSE p + find_script_closing_angle(text, p)

\* a slip: the first ">" taken, quoted or not
ClosingAngleOffsetNaive(text, p) == FindChar(SliceFrom(text, p), {">"})

\* line 57: the call of find_script_closing_angle at the cursor
ClosingAngleOffset(text, p) == find_script_closing_angle(text, p)

\* line 58: the tag interior
TagContent(text, p, offset) == Slice(text, p, p + offset)

\* a slip: an unknown language falls back to the default source type
ResolveLangOrDefault(lang) ==
    IF from_extension(lang).ok THEN from_extension(lang) ELSE Ok(mjs)

\* line 62: SourceType::from_extension(lang)
ResolveLang(lang) == from_extension(lang)

\* a slip: the JSX variant of the registry kept for every language
NormalizeVariantNever(lang, st) == st

\* lines 67-69: if !lang.contains('x') { source_type.with_standard(true) }
NormalizeVariant(lang, st) ==
    IF "x" \notin {lang[i] : i \in 1..Len(lang)}
    THEN with_standard(st, TRUE)
    ELSE st

\* line 63: the cursor after a block dropped for its language
PointerAfterDrop(p, offset) == p + offset + 1

\* a slip: the body taken to start at the ">" itself
JsStartAtAngle(p, offset) == p + offset

\* lines 71-72
JsStart(p, offset) == p + offset + 1

\* a slip: the last "</script>" of the document taken as the end of the block
ScriptEndOffsetLast(text, p) == FinderRfind(SCRIPT_END, SliceFrom(text, p))

\* line 76: script_end_finder.find(&bytes[*pointer..])
ScriptEndOffset(text, p) == FinderFind(SCRIPT_END, SliceFrom(text, p))

\* a slip: `*pointer = ..` for `*pointer += ..`
PointerAfterScriptAssigned(p, end_offset) == end_offset + Len(SCRIPT_END)

\* a slip: line 78 left out, the cursor staying at the start of the body
PointerAfterScriptNotMoved(p, end_offset) == p

\* a slip: one byte too many counted for the closing marker
PointerAfterScriptPlusOne(p, end_offset) == p + end_offset + Len(SCRIPT_END) + 1

\* line 78
PointerAfterScript(p, end_offset) == p + end_offset + Len(SCRIPT_END)

\* `n as u32`: n modulo 2^32, computed on 16-bit halves
AsU32(n) == ((n \div 65536) % 65536) * 65536 + (n % 65536)

\* a slip: the closing marker taken into the body
JavaScriptSourceWithMarker(text, st, js_start, js_end) ==
    [source_text |-> Slice(text, js_start, js_end + Len(SCRIPT_END)),
     source_type |-> st,
     start |-> AsU32(js_start)]

\* lines 80-82: JavaScriptSource::partial(source_text, source_type, js_start as u32)
JavaScriptSource(text, st, js_start, js_end) ==
    [source_text |-> Slice(text, js_start, js_end),
     source_type |-> st,
     start |-> AsU32(js_start)]

\* line 30: results.push(result)
Push(rs, r) == Append(rs, r)

\* a slip: `continue` for `?` when no "</script>" is found
ExtractBodyContinue(text, js_start, source_type, end_offset) ==
    IF end_offset = NONE
    THEN [kind |-> "TagNameRejected", pointer |-> js_start]
    ELSE [kind |-> "ScriptExtracted",
          pointer |-> PointerAfterScript(js_start, end_offset),
          source |-> JavaScriptSource(text, source_type, js_start, js_start + end_offset)]

\* lines 74-82, with the cursor at js_start: the search for "</script>"
ExtractBody(text, js_start, source_type, end_offset) ==
    IF end_offset = NONE
    THEN [kind |-> "ScriptEndNotFound", pointer |-> js_start]
    ELSE [kind |-> "ScriptExtracted",
          pointer |-> PointerAfterScript(js_start, end_offset),
          source |-> JavaScriptSource(text, source_type, js_start, js_start + end_offset)]

\* a slip: the whole block dropped, the cursor moved past its "</script>"
ResolveBlockSkipBody(text, p, offset, lang, st) ==
    IF ~st.ok
    THEN [kind |-> "LangUnresolved",
          pointer |-> IF ScriptEndOffset(text, JsStart(p, offset)) = NONE
                      THEN PointerAfterDrop(p, offset)
                      ELSE PointerAfterScript(JsStart(p, offset),
                                              ScriptEndOffset(text, JsStart(p, offset)))]
    ELSE ExtractBody(text, JsStart(p, offset), NormalizeVariant(lang, st.value),
                     ScriptEndOffset(text, JsStart(p, offset)))

\* lines 62-72, with the cursor after "<script" and the ">" at `offset`
ResolveBlock(text, p, offset, lang, st) ==
    IF ~st.ok
    THEN [kind |-> "LangUnresolved", pointer |-> PointerAfterDrop(p, offset)]
    ELSE ExtractBody(text, JsStart(p, offset), NormalizeVariant(lang, st.value),
                     ScriptEndOffset(text, JsStart(p, offset)))

\* a slip: `continue` for `?` when no closing angle is found
ReadTagContinue(text, p, offset) ==
    IF offset = NONE
    THEN [kind |-> "TagNameRejected", pointer |-> p]
    ELSE ResolveBlock(text, p, offset,
                      extract_lang_attribute(TagContent(text, p, offset)),
                      ResolveLang(extract_lang_attribute(TagContent(text, p, offset))))

\* lines 57-61, with the cursor after "<script"
ReadTag(text, p, offset) ==
    IF offset = NONE
    THEN [kind |-> "ClosingAngleNotFound", pointer |-> p]
    ELSE ResolveBlock(text, p, offset,
                      extract_lang_attribute(TagContent(text, p, offset)),
                      ResolveLang(extract_lang_attribute(TagContent(text, p, offset))))

\* lines 51-54, with the cursor after "<script"
CheckTagName(text, p) ==
    IF ~TagNameAccepted(text, p)
    THEN [kind |-> "TagNameRejected", pointer |-> p]
    ELSE ReadTag(text, p, ClosingAngleOffset(text, p))

\* a slip: `*pointer = ..` for `*pointer += ..` at line 43
AdvanceToTagAssigned(text, p, start) ==
    IF start = NONE
    THEN [kind |-> "ScriptStartNotFound", pointer |-> p]
    ELSE CheckTagName(text, start)

\* lines 43-49, with `start` the value of find_script_start
AdvanceToTag(text, p, start) ==
    IF start = NONE
    THEN [kind |-> "ScriptStartNotFound", pointer |-> p]
    ELSE CheckTagName(text, p + start)

\* One iteration of the loop of parse_script (lines 41-83): how it ends, the
\* cursor it leaves, and the block it returns
Iteration(text, p) == AdvanceToTag(text, p, ScriptStartOffset(text, p))

\* The slices an iteration takes, each as <<lo, hi>> for &s[lo..hi] (and
\* <<lo, Len(s)>> for &s[lo..]).  A slice with lo > hi or hi > Len(s) panics:
\* nothing is evaluated after it.
InBounds(text, sl) == 0 <= sl[1] /\ sl[1] <= sl[2] /\ sl[2] <= Len(text)

\* str::is_char_boundary: offset i is not at the second byte of U+00E9
IsCharBoundary(text, i) == i = Len(text) \/ text[i + 1] # "A9"

\* lines 76 and 80: &bytes[*pointer..] and &source_text[js_start..js_end]
BodySlices(text, js_start, end_offset) ==
    {<<js_start, Len(text)>>} \cup
    (IF ~InBounds(text, <<js_start, Len(text)>>) \/ end_offset = NONE THEN {}
     ELSE {<<js_start, js_start + end_offset>>})

\* line 58: &source_text[*pointer..*pointer + offset]
BlockSlices(text, p, offset) ==
    {<<p, p + offset>>} \cup
    (IF ~InBounds(text, <<p, p + offset>>) THEN {}
     ELSE IF ~ResolveLang(extract_lang_attribute(TagContent(text, p, offset))).ok THEN {}
     ELSE BodySlices(text, JsStart(p, offset), ScriptEndOffset(text, JsStart(p, offset))))

\* line 52: source_text[*pointer..]
TagSlices(text, p) ==
    {<<p, Len(text)>>} \cup
    (IF ~InBounds(text, <<p, Len(text)>>) THEN {}
     ELSE IF ~TagNameAccepted(text, p) THEN {}
     ELSE IF ClosingAngleOffset(text, p) = NONE THEN {}
     ELSE BlockSlices(text, p, ClosingAngleOffset(text, p)))

\* lines 43-49: find_script_start searches the text from the cursor
IterationSlices(text, p) ==
    {<<p, Len(text)>>} \cup
    (IF ~InBounds(text, <<p, Len(text)>>) THEN {}
     ELSE IF ScriptStartOffset(text, p) = NONE THEN {}
     ELSE TagSlices(text, p + ScriptStartOffset(text, p)))

\* parse_scripts (lines 25-34) from cursor p with the blocks rs collected so far
RECURSIVE ParseFrom(_, _, _)
ParseFrom(text, p, rs) ==
    LET it == Iteration(text, p)
    IN  IF it.kind \in {"TagNameRejected", "LangUnresolved"}
        THEN ParseFrom(text, it.pointer, rs)
        ELSE IF it.kind = "ScriptExtracted"
        THEN ParseFrom(text, it.pointer, Push(rs, it.source))
        ELSE rs

\* MpxPartialLoader::new(source_text).parse()
parse(text) == ParseFrom(text, 0, <<>>)

(***************************************************************************)
(* Documents.  A document is the concatenation of at most MaxFrags         *)
(* fragments (Spec), or one opening tag with at most MaxAttrFrags          *)
(* attribute fragments between a head and a tail (SpecTag).                *)
(***************************************************************************)
BLOCK == SCRIPT_START \o <<">", "C3", "A9">> \o SCRIPT_END
OPEN == SCRIPT_START \o <<">">>
OPEN_XXX == SCRIPT_START \o <<" ", "l", "a", "n", "g", "=", "'", "x", "x", "x", "'", ">">>
OPEN_QUOTE == SCRIPT_START \o <<" ", "'">>

LOOKALIKE == SCRIPT_START \o <<"-", "v", "i", "e", "w", " ", "/", ">">>
COMMENTED == COMMENT_START \o BLOCK \o COMMENT_END

Fragments ==
    { BLOCK, OPEN, SCRIPT_END, COMMENT_START, COMMENT_END, COMMENTED,
      LOOKALIKE, OPEN_XXX, OPEN_QUOTE }

ATTR_JSON_TYPE ==
    <<" ", "t", "y", "p", "e", "=", "\"", "a", "p", "p", "l", "i", "c", "a", "t", "i",
      "o", "n", "/", "j", "s", "o", "n", "\"">>
ATTR_JSON_NAME == <<" ", "n", "a", "m", "e", "=", "\"", "j", "s", "o", "n", "\"">>

Heads ==
    { SCRIPT_START, SCRIPT_START \o ATTR_JSON_TYPE, SCRIPT_START \o ATTR_JSON_NAME }

Tails == { <<">", "a">> \o SCRIPT_END, <<>> }

AttrFragments ==
    { <<" ", "l", "a", "n", "g", "=">>, <<"j", "s">>, <<"x">>, <<"'">>, <<"\"">>,
      <<">">>, <<"\\">>, <<"\t">>, SCRIPT_START }

RECURSIVE Flatten(_)
Flatten(fs) == IF fs = <<>> THEN <<>> ELSE Head(fs) \o Flatten(Tail(fs))


\* Tag interiors (SpecLang): nothing, or a space and at most MaxLangFrags
\* pieces, such that the ">" that ends the tag is the one after the pieces
LangFragments ==
    { LANG, <<"=">>, <<" ">>, <<"\"">>, <<"'">>, <<"t", "s">>, <<">">>,
      <<"d", "a", "t", "a", "-">> }

\* the ">" that ends the tag at the start of d is the last byte of d
EndsAtLastByte(d) ==
    find_script_closing_angle(d, Len(SCRIPT_START)) = Len(d) - Len(SCRIPT_START) - 1

(***************************************************************************)
(* MpxPartialLoader::new and parse_scripts line 26-27                      *)
(***************************************************************************)
Init ==
    /\ \E k \in 0..MaxFrags : \E fs \in [1..k -> Fragments] :
          source_text = Flatten(fs)
    /\ pointer = 0
    /\ results = <<>>
    /\ pc = "parse_script"

InitTag ==
    /\ \E h \in Heads, t \in Tails, k \in 0..MaxAttrFrags :
          \E fs \in [1..k -> AttrFragments] :
              source_text = h \o Flatten(fs) \o t
    /\ pointer = 0
    /\ results = <<>>
    /\ pc = "parse_script"

(***************************************************************************)
(* The ways an iteration of the loop of parse_script ends, each with what  *)
(* parse_scripts (lines 29-33) does with the outcome.                      *)
(***************************************************************************)
\* line 49: find_script_start(..)? is None; parse_scripts returns
ScriptStartNotFound ==
    /\ pc = "parse_script"
    /\ LET it == Iteration(source_text, pointer)
       IN  /\ it.kind = "ScriptStartNotFound"
           /\ pointer' = it.pointer
    /\ pc' = "done"
    /\ UNCHANGED <<source_text, results>>

\* lines 52-54: `continue` on a tag name that goes on after "<script"
TagNameRejected ==
    /\ pc = "parse_script"
    /\ LET it == Iteration(source_text, pointer)
       IN  /\ it.kind = "TagNameRejected"
           /\ pointer' = it.pointer
    /\ UNCHANGED <<source_text, results, pc>>

\* line 57: find_script_closing_angle(..)? is None; parse_scripts returns
ClosingAngleNotFound ==
    /\ pc = "parse_script"
    /\ LET it == Iteration(source_text, pointer)
       IN  /\ it.kind = "ClosingAngleNotFound"
           /\ pointer' = it.pointer
    /\ pc' = "done"
    /\ UNCHANGED <<source_text, results>>

\* lines 62-65: `continue` on a language the registry does not know
LangUnresolved ==
    /\ pc = "parse_script"
    /\ LET it == Iteration(source_text, pointer)
       IN  /\ it.kind = "LangUnresolved"
           /\ pointer' = it.pointer
    /\ UNCHANGED <<source_text, results, pc>>

\* line 76: script_end_finder.find(..)? is None; parse_scripts returns
ScriptEndNotFound ==
    /\ pc = "parse_script"
    /\ LET it == Iteration(source_text, pointer)
       IN  /\ it.kind = "ScriptEndNotFound"
           /\ pointer' = it.pointer
    /\ pc' = "done"
    /\ UNCHANGED <<source_text, results>>

\* lines 71-82 and line 30: the block is returned and pushed
ScriptExtracted ==
    /\ pc = "parse_script"
    /\ LET it == Iteration(source_text, pointer)
       IN  /\ it.kind = "ScriptExtracted"
           /\ pointer' = it.pointer
           /\ results' = Push(results, it.source)
    /\ UNCHANGED <<source_text, pc>>

Next ==
    \/ ScriptStartNotFound
    \/ TagNameRejected
    \/ ClosingAngleNotFound
    \/ LangUnresolved
    \/ ScriptEndNotFound
    \/ ScriptExtracted

Spec == Init /\ [][Next]_vars

SpecTag == InitTag /\ [][Next]_vars

\* extract_lang_attribute alone, on the interior of the tag at the start of
\* the document (lines 57-61): `results` holds the token it returns
InitLang ==
    /\ \/ source_text = SCRIPT_START \o <<">">>
       \/ \E k \in 0..MaxLangFrags : \E fs \in [1..k -> LangFragments] :
             /\ EndsAtLastByte(SCRIPT_START \o <<" ">> \o Flatten(fs) \o <<">">>)
             /\ source_text = SCRIPT_START \o <<" ">> \o Flatten(fs) \o <<">">>
    /\ pointer = Len(SCRIPT_START)
    /\ results = <<>>
    /\ pc = "extract_lang_attribute"

ExtractLang ==
    /\ pc = "extract_lang_attribute"
    /\ results' = <<extract_lang_attribute(
                       TagContent(source_text, pointer,
                                  ClosingAngleOffset(source_text, pointer)))>>
    /\ pc' = "lang_extracted"
    /\ UNCHANGED <<source_text, pointer>>

NextLang == ExtractLang

SpecLang == InitLang /\ [][NextLang]_vars

\* parse_scripts runs its loop to the end: a step that can be taken is taken.
\* This is weak fairness of Next, with its enabling condition written out: an
\* iteration can be taken exactly when parse_scripts has not returned.
LoopRuns == []<>(pc = "done") \/ []<><<Next>>_vars

SpecLive == Init /\ [][Next]_vars /\ LoopRuns

TypeOK ==
    /\ pointer \in 0..Len(source_text)
    /\ pc \in {"parse_script", "done"}

(***************************************************************************)
(* The structure of a document, stated on its text alone: the occurrences  *)
(* of "<script", the comments around them, and the extent of each tag.     *)
(***************************************************************************)
ScriptOccurrences(text) ==
    {c \in 0..(Len(text) - Len(SCRIPT_START)) : IsAt(text, SCRIPT_START, c)}

\* the occurrence at c lies between a "<!--" and the first "-->" after it
EnclosedInComment(text, c) ==
    \E cs \in 0..(c - Len(COMMENT_START)) :
        /\ IsAt(text, COMMENT_START, cs)
        /\ \A k \in (cs + Len(COMMENT_START))..(c - 1) : ~IsAt(text, COMMENT_END, k)
        /\ \E ce \in (c + 1)..(Len(text) - Len(COMMENT_END)) : IsAt(text, COMMENT_END, ce)

\* the tag name ends after "script": a space or ">" follows
HasScriptName(text, c) ==
    /\ c + Len(SCRIPT_START) < Len(text)
    /\ text[c + Len(SCRIPT_START) + 1] \in {" ", ">"}

ScriptTags(text) == {c \in ScriptOccurrences(text) : HasScriptName(text, c)}

GenuineTags(text) == {c \in ScriptTags(text) : ~EnclosedInComment(text, c)}

\* offset of the ">" that ends the opening tag at c, or NONE
ClosingAngle(text, c) ==
    LET off == find_script_closing_angle(text, c + Len(SCRIPT_START))
    IN  IF off = NONE THEN NONE ELSE c + Len(SCRIPT_START) + off

TagInterior(text, c) == Slice(text, c + Len(SCRIPT_START), ClosingAngle(text, c))

Recognized(text, c) == from_extension(extract_lang_attribute(TagInterior(text, c))).ok

\* offset of the first "</script>" after the opening tag at c, or NONE
BodyEnd(text, c) == FirstAt(text, SCRIPT_END, ClosingAngle(text, c) + 1)

\* the end of the block opened at c: past "</script>", or past ">" when the
\* language of the block is not recognized
SpanEnd(text, c) ==
    IF Recognized(text, c) THEN BodyEnd(text, c) + Len(SCRIPT_END)
    ELSE ClosingAngle(text, c) + 1

\* the tags T are all terminated and do not overlap
WellFormed(text, T) ==
    \A t \in T :
        LET end == SpanEnd(text, t)
        IN  /\ ClosingAngle(text, t) # NONE
            /\ Recognized(text, t) => BodyEnd(text, t) # NONE
            /\ \A u \in T : t < u => end <= u

Nth(S, i) == CHOOSE t \in S : Cardinality({u \in S : u <= t}) = i

\* rs holds one entry per tag of R, in document order
MatchesTags(rs, text, R) ==
    /\ Len(rs) = Cardinality(R)
    /\ \A i \in 1..Len(rs) :
          LET t == Nth(R, i)
          IN  /\ rs[i].start = ClosingAngle(text, t) + 1
              /\ rs[i].source_text = Slice(text, ClosingAngle(text, t) + 1, BodyEnd(text, t))

(***************************************************************************)
(* C1: when every script tag of the document is outside comments, has a    *)
(* recognized language and is terminated, and the tags do not overlap, the *)
(* result has one entry per tag, entry i holding the body of the i-th tag. *)
(***************************************************************************)
C1_AllTagsGood ==
    /\ \A t \in ScriptTags(source_text) : ~EnclosedInComment(source_text, t)
    /\ WellFormed(source_text, ScriptTags(source_text))
    /\ \A t \in ScriptTags(source_text) : Recognized(source_text, t)

C1_OneEntryPerTag ==
    (pc = "done" /\ C1_AllTagsGood)
        => MatchesTags(results, source_text, ScriptTags(source_text))

C1_Witness ==
    /\ pc = "done"
    /\ C1_AllTagsGood
    /\ Cardinality(ScriptTags(source_text)) >= 2
    /\ Len(results) = Cardinality(ScriptTags(source_text))
    /\ \E i \in 1..Len(results) : results[i].source_text # <<>>

(***************************************************************************)
(* C2: the start offset of every entry is the offset just after the ">"    *)
(* that ends an opening script tag, and the body of the entry is the text  *)
(* of the document at that offset.                                         *)
(***************************************************************************)
C2_StartAfterClosingAngle ==
    \A i \in 1..Len(results) :
        LET r == results[i]
        IN  /\ r.start >= 1
            /\ source_text[r.start] = ">"
            /\ \E t \in ScriptTags(source_text) : ClosingAngle(source_text, t) + 1 = r.start
            /\ Slice(source_text, r.start, r.start + Len(r.source_text)) = r.source_text

C2_Witness ==
    \E i \in 1..Len(results) :
        /\ results[i].source_text # <<>>
        /\ results[i].start > Len(OPEN)
        /\ C2_StartAfterClosingAngle

(***************************************************************************)
(* C10: the entries are in strictly increasing order of start offset.      *)
(***************************************************************************)
C10_StartsIncrease ==
    \A i, j \in 1..Len(results) : i < j => results[i].start < results[j].start

C10_Witness ==
    /\ Len(results) >= 2
    /\ C10_StartsIncrease

(***************************************************************************)
(* C3: a script tag enclosed in a comment produces no entry: every entry   *)
(* is the block of a tag outside comments, and when the tags outside       *)
(* comments are terminated and do not overlap, the result is exactly the   *)
(* blocks of the recognized ones, whatever the comments hold.              *)
(***************************************************************************)
RecognizedTags(text) == {t \in GenuineTags(text) : Recognized(text, t)}

C3_CommentedTagsSkipped ==
    /\ results # <<>>
          => LET tags == GenuineTags(source_text)
             IN  \A i \in 1..Len(results) :
                    \E t \in tags : ClosingAngle(source_text, t) + 1 = results[i].start
    /\ (pc = "done" /\ WellFormed(source_text, GenuineTags(source_text)))
          => MatchesTags(results, source_text, RecognizedTags(source_text))

\* a tag in a comment was passed over and a tag after the comment extracted
C3_Witness ==
    /\ pc = "done"
    /\ WellFormed(source_text, GenuineTags(source_text))
    /\ \E c \in ScriptTags(source_text) :
          /\ EnclosedInComment(source_text, c)
          /\ \E i \in 1..Len(results) :
                results[i].start >
                    FirstAt(source_text, COMMENT_END, c) + Len(COMMENT_END)

(***************************************************************************)
(* C4: a tag whose name goes on after "script" produces no entry (every    *)
(* entry is the block of a tag named "script"), and the scan that meets    *)
(* such a tag ends with the result it has for the document without it,     *)
(* the later entries moved by the length of the tag.                       *)
(***************************************************************************)
\* the next "<script" outside comments at or after offset p, or NONE
RECURSIVE NextOccurrence(_, _)
NextOccurrence(text, p) ==
    LET c == FirstAt(text, SCRIPT_START, p)
    IN  IF c = NONE THEN NONE
        ELSE IF EnclosedInComment(text, c) THEN NextOccurrence(text, c + 1)
        ELSE c

Without(text, c, n) == Slice(text, 0, c) \o SliceFrom(text, c + n)

ShiftAfter(rs, c, n) ==
    [i \in 1..Len(rs) |->
        IF rs[i].start >= c THEN [rs[i] EXCEPT !.start = @ + n] ELSE rs[i]]

NextIsLookAlike ==
    /\ pc = "parse_script"
    /\ NextOccurrence(source_text, pointer) # NONE
    /\ IsAt(source_text, LOOKALIKE, NextOccurrence(source_text, pointer))

C4_LookAlikeIgnored ==
    /\ \A i \in 1..Len(results) :
          \E t \in ScriptTags(source_text) :
              ClosingAngle(source_text, t) + 1 = results[i].start
    /\ NextIsLookAlike =>
          LET c == NextOccurrence(source_text, pointer)
          IN  ParseFrom(source_text, pointer, results)
                = ShiftAfter(parse(Without(source_text, c, Len(LOOKALIKE))),
                             c, Len(LOOKALIKE))

\* a look-alike tag was met and a script tag after it extracted
C4_Witness ==
    /\ pc = "done"
    /\ WellFormed(source_text, GenuineTags(source_text))
    /\ \E c \in ScriptOccurrences(source_text) :
          /\ IsAt(source_text, LOOKALIKE, c)
          /\ ~EnclosedInComment(source_text, c)
          /\ \A t \in GenuineTags(source_text) : ~(t < c /\ c < SpanEnd(source_text, t))
          /\ \E i \in 1..Len(results) : results[i].start > c + Len(LOOKALIKE)
          /\ \A i \in 1..Len(results) : results[i].start # c + Len(LOOKALIKE)
          /\ results = ShiftAfter(parse(Without(source_text, c, Len(LOOKALIKE))),
                                  c, Len(LOOKALIKE))

(***************************************************************************)
(* C5: the body of every entry starts right after the first ">" of its     *)
(* opening tag that is outside quotes: the text between the tag name and   *)
(* that ">" is made of bytes other than ">" and of quoted spans, each      *)
(* closed by the next occurrence of the quote that opens it.               *)
(***************************************************************************)
RECURSIVE OpaqueSpans(_, _)
OpaqueSpans(s, i) ==
    IF i > Len(s) THEN TRUE
    ELSE IF s[i] = ">" THEN FALSE
    ELSE IF s[i] \in {"'", "\""}
         THEN LET close == {j \in (i + 1)..Len(s) : s[j] = s[i]}
              IN  /\ close # {}
                  /\ OpaqueSpans(s, (CHOOSE j \in close : \A k \in close : j <= k) + 1)
         ELSE OpaqueSpans(s, i + 1)

C5_ClosingAngleOutsideQuotes ==
    \A i \in 1..Len(results) :
        \E t \in ScriptTags(source_text) :
            LET angle == results[i].start - 1
            IN  /\ angle >= t + Len(SCRIPT_START)
                /\ source_text[angle + 1] = ">"
                /\ OpaqueSpans(Slice(source_text, t + Len(SCRIPT_START), angle), 1)

\* an entry whose opening tag holds a ">" in a quoted value, and a backslash
\* before the quote that closes a value
C5_Witness ==
    /\ Len(results) = 1
    /\ C5_ClosingAngleOutsideQuotes
    /\ \E k \in 1..(results[1].start - 1) : source_text[k] = ">"

C5_WitnessBackslash ==
    /\ Len(results) = 1
    /\ \E k \in 2..(results[1].start - 1) :
          source_text[k] = "'" /\ source_text[k - 1] = "\\"

(***************************************************************************)
(* C6: a script tag without `lang` in it is extracted with the source type *)
(* of a plain module (mjs, no JSX), its body the text between the tags.    *)
(***************************************************************************)
NoLang(text, t) == FinderFind(LANG, TagInterior(text, t)) = NONE

HasX(lang) == \E k \in 1..Len(lang) : lang[k] = "x"

C7_JsxFollowsX ==
    \A i \in 1..Len(results) : \A t \in GenuineTags(source_text) :
        ClosingAngle(source_text, t) + 1 = results[i].start
            => LET lang == extract_lang_attribute(TagInterior(source_text, t))
               IN  /\ ~HasX(lang) => results[i].source_type.variant = "Standard"
                   /\ HasX(lang) => /\ results[i].source_type = from_extension(lang).value
                                     /\ results[i].source_type.variant = "Jsx"

\* a `lang` token without "x" that the registry maps to JSX
C7_Witness ==
    /\ Len(results) = 1
    /\ ~NoLang(source_text, 0)
    /\ LET lang == extract_lang_attribute(TagInterior(source_text, 0))
       IN  /\ ~HasX(lang)
           /\ lang # DEFAULT_LANG
           /\ from_extension(lang).value.variant = "Jsx"
           /\ results[1].source_type.variant = "Standard"

C7_WitnessJsx ==
    /\ Len(results) = 1
    /\ HasX(extract_lang_attribute(TagInterior(source_text, 0)))
    /\ results[1].source_type.variant = "Jsx"

(***************************************************************************)
(* C8: when the tags outside comments are terminated and do not overlap,   *)
(* a tag whose language the registry does not know has no entry, and the   *)
(* scan goes on: at its end the result holds the block of every recognized *)
(* tag, those after the dropped one included.                              *)
(***************************************************************************)
C8_UnknownLangDropped ==
    (results # <<>> \/ pc = "done")
        => LET tags == GenuineTags(source_text)
           IN  WellFormed(source_text, tags)
                 => /\ \A t \in tags :
                         ~Recognized(source_text, t)
                             => \A i \in 1..Len(results) :
                                   results[i].start # ClosingAngle(source_text, t) + 1
                    /\ pc = "done"
                         => MatchesTags(results, source_text, RecognizedTags(source_text))

C8_Witness ==
    /\ pc = "done"
    /\ WellFormed(source_text, GenuineTags(source_text))
    /\ \E t \in GenuineTags(source_text) :
          /\ ~Recognized(source_text, t)
          /\ \E i \in 1..Len(results) : results[i].start > ClosingAngle(source_text, t) + 1
          /\ \E i \in 1..Len(results) : results[i].start < t

(***************************************************************************)
(* C9: when the next tag outside comments is a script tag with a           *)
(* recognized language and no "</script>" follows its ">", the step ends   *)
(* the scan, with the cursor after that ">" and the entries collected so   *)
(* far as the result.                                                      *)
(***************************************************************************)
NextIsUnterminated ==
    LET u == NextOccurrence(source_text, pointer)
    IN  /\ pc = "parse_script"
        /\ u # NONE
        /\ HasScriptName(source_text, u)
        /\ ClosingAngle(source_text, u) # NONE
        /\ Recognized(source_text, u)
        /\ BodyEnd(source_text, u) = NONE

C9_UnterminatedStops ==
    [][NextIsUnterminated
         => /\ pc' = "done"
            /\ results' = results
            /\ pointer' = ClosingAngle(source_text, NextOccurrence(source_text, pointer)) + 1
      ]_vars

\* the scan stopped at an unterminated tag, entries collected before it
C9_Witness ==
    /\ pc = "done"
    /\ Len(results) >= 1
    /\ \E u \in GenuineTags(source_text) :
          /\ ClosingAngle(source_text, u) # NONE
          /\ Recognized(source_text, u)
          /\ BodyEnd(source_text, u) = NONE
          /\ pointer = ClosingAngle(source_text, u) + 1
          /\ \E v \in ScriptTags(source_text) : v > u

(***************************************************************************)
(* C11: the scan terminates: every step of the loops either ends the scan  *)
(* or leaves the cursor strictly further in the document, and the scan of  *)
(* every document ends.                                                    *)
(***************************************************************************)
C11_ScanTerminates ==
    /\ [][pc' = "done" \/ pointer' > pointer]_vars
    /\ <>(pc = "done")

\* a scan that ended after a rejected tag name, a dropped block and an
\* extracted block
C11_Witness ==
    /\ pc = "done"
    /\ pointer = Len(source_text)
    /\ Len(results) >= 1
    /\ \E c \in ScriptOccurrences(source_text) :
          ~HasScriptName(source_text, c) /\ ~EnclosedInComment(source_text, c)
    /\ \E t \in GenuineTags(source_text) :
          ClosingAngle(source_text, t) # NONE /\ ~Recognized(source_text, t)

(***************************************************************************)
(* The `lang` attribute of a tag interior, stated on its text: the text    *)
(* that follows the first "lang", optional whitespace, "=" and optional    *)
(* whitespace.                                                             *)
(***************************************************************************)
Interior(text) == Slice(text, Len(SCRIPT_START), Len(text) - 1)

\* offset of the first byte at or after i that is not whitespace
SkipWhiteSpace(s, i) ==
    CHOOSE j \in i..Len(s) :
        /\ \A k \in (i + 1)..j : s[k] \in WhiteSpace
        /\ j < Len(s) => s[j + 1] \notin WhiteSpace

FirstLang(s) ==
    LET occ == {i \in 0..(Len(s) - Len(LANG)) : IsAt(s, LANG, i)}
    IN  IF occ = {} THEN NONE ELSE CHOOSE i \in occ : \A j \in occ : i <= j

\* the first "lang" of s is followed by optional whitespace and "="
HasLangEquals(s) ==
    /\ FirstLang(s) # NONE
    /\ LET e == SkipWhiteSpace(s, FirstLang(s) + Len(LANG))
       IN  e < Len(s) /\ s[e + 1] = "="

\* the text after that "=" and optional whitespace
LangValueText(s) ==
    LET e == SkipWhiteSpace(s, FirstLang(s) + Len(LANG))
    IN  SliceFrom(s, SkipWhiteSpace(s, e + 1))

Token == results[1]

(***************************************************************************)
(* C12 as stated: the token returned by extract_lang_attribute is never    *)
(* empty.                                                                  *)
(***************************************************************************)
C12_TokenNeverEmpty == pc = "lang_extracted" => Token # <<>>

(***************************************************************************)
(* C12, amended: the token returned by extract_lang_attribute is empty     *)
(* exactly when the "=" after the first `lang` is followed, after optional *)
(* whitespace, by an empty quoted value ('' or "") or by ">"; in every     *)
(* other case it is not empty.                                             *)
(***************************************************************************)
EmptyLangValue(s) ==
    /\ HasLangEquals(s)
    /\ LET v == LangValueText(s)
       IN  \/ Len(v) >= 1 /\ v[1] = ">"
           \/ Len(v) >= 2 /\ v[1] \in {"'", "\""} /\ v[2] = v[1]

C12_TokenEmptyOnlyForEmptyValue ==
    pc = "lang_extracted" => (Token = <<>> <=> EmptyLangValue(Interior(source_text)))

\* lang="" gives the empty token
C12_Witness ==
    /\ pc = "lang_extracted"
    /\ Token = <<>>
    /\ LangValueText(Interior(source_text)) = <<"\"", "\"">>

(***************************************************************************)
(* C13: the cursor is always an offset of the document, from 0 to its      *)
(* length, and no step of the scan moves it backwards.                     *)
(***************************************************************************)
C13_CursorMonotoneInBounds ==
    /\ [](pointer >= 0 /\ pointer <= Len(source_text))
    /\ [][pointer' >= pointer]_vars

\* the scan ended with the cursor at the end of the document, after a
\* retry and an extraction
C13_Witness ==
    /\ pc = "done"
    /\ pointer = Len(source_text)
    /\ Len(results) >= 1
    /\ WellFormed(source_text, GenuineTags(source_text))
    /\ \E t \in GenuineTags(source_text) : ~Recognized(source_text, t)

(***************************************************************************)
(* C14: every slice the scan takes has bounds 0 <= lo <= hi <= Len of the  *)
(* document, both at character boundaries, so no step panics, and the scan *)
(* of a document without any "<script" ends with the empty sequence.       *)
(***************************************************************************)
C14_SlicesInBounds ==
    /\ pc = "parse_script"
          => \A sl \in IterationSlices(source_text, pointer) :
                /\ InBounds(source_text, sl)
                /\ IsCharBoundary(source_text, sl[1])
                /\ IsCharBoundary(source_text, sl[2])
    /\ (pc = "done" /\ ScriptOccurrences(source_text) = {}) => results = <<>>

\* an iteration past the start of the document that takes every slice: the
\* look-ahead, the tag interior, the search range and the body
C14_Witness ==
    /\ pc = "parse_script"
    /\ pointer > 0
    /\ C14_SlicesInBounds
    /\ \E sl \in IterationSlices(source_text, pointer) :
          sl[2] < Len(source_text) /\ sl[1] < sl[2] /\ source_text[sl[1]] = ">"
    /\ Cardinality(IterationSlices(source_text, pointer)) >= 5

(***************************************************************************)
(* C15: the body of every entry is the text of the document from right     *)
(* after a ">" to right before a "</script>", with no "</script>" inside   *)
(* it, and the step that extracts an entry leaves the cursor right after   *)
(* that "</script>".                                                       *)
(***************************************************************************)
BodyBetweenDelimiters(text, r) ==
    /\ r.start >= 1
    /\ text[r.start] = ">"
    /\ r.source_text = Slice(text, r.start, r.start + Len(r.source_text))
    /\ IsAt(text, SCRIPT_END, r.start + Len(r.source_text))
    /\ \A k \in r.start..(r.start + Len(r.source_text) - 1) : ~IsAt(text, SCRIPT_END, k)

C15_BodyExcludesDelimiters ==
    /\ [](\A i \in 1..Len(results) : BodyBetweenDelimiters(source_text, results[i]))
    /\ [][Len(results') > Len(results)
            => pointer' = results'[Len(results')].start
                            + Len(results'[Len(results')].source_text) + Len(SCRIPT_END)]_vars

\* a body was extracted up to the first of two "</script>"
C15_Witness ==
    /\ Len(results) = 1
    /\ results[1].source_text # <<>>
    /\ BodyBetweenDelimiters(source_text, results[1])
    /\ pointer = results[1].start + Len(results[1].source_text) + Len(SCRIPT_END)
    /\ IsAt(source_text, SCRIPT_END, pointer)

(***************************************************************************)
(* C16: when the next "<script" outside comments is followed by a byte     *)
(* other than a space or ">", or by the end of the document, the step      *)
(* produces no entry and leaves the cursor right after that "<script",     *)
(* the scan going on from there; when it is followed by a space or ">",    *)
(* the step is not such a retry.                                           *)
(***************************************************************************)
C16_OnlySpaceOrAngleAccepted ==
    [][LET c == NextOccurrence(source_text, pointer)
       IN  (pc = "parse_script" /\ c # NONE)
              => IF HasScriptName(source_text, c)
                 THEN pc' = "done" \/ pointer' > c + Len(SCRIPT_START)
                 ELSE /\ pointer' = c + Len(SCRIPT_START)
                      /\ results' = results
                      /\ pc' = "parse_script"]_vars

\* "<script" followed by a tab was rejected, and the "<script>" that starts
\* right after the tab was extracted
C16_Witness ==
    /\ pc = "done"
    /\ IsAt(source_text, SCRIPT_START \o <<"\t">> \o SCRIPT_START \o <<">">>, 0)
    /\ Len(results) = 1
    /\ results[1].start = 2 * Len(SCRIPT_START) + 2

(***************************************************************************)
(* C17: only the first "lang" of the tag interior counts.  When it is not  *)
(* followed by optional whitespace and "=", the token is the default,      *)
(* whatever comes later; when it is, the token is read from the text that  *)
(* follows this "=" (or is the default when no value can be read there),   *)
(* whatever the "lang" is part of.                                         *)
(***************************************************************************)
Quotes == {"'", "\""}

C17_FirstLangOnly ==
    pc = "lang_extracted" =>
        LET s == Interior(source_text)
        IN  IF ~HasLangEquals(s) THEN Token = DEFAULT_LANG
            ELSE LET v == LangValueText(s)
                 IN  \/ /\ v # <<>>
                        /\ v[1] \notin Quotes
                        /\ (Token = <<>> \/ IsAt(v, Token, 0))
                     \/ /\ v # <<>>
                        /\ v[1] \in Quotes
                        /\ IsAt(v, <<v[1]>> \o Token \o <<v[1]>>, 0)
                     \/ /\ Token = DEFAULT_LANG
                        /\ (v = <<>> \/ (v[1] \in Quotes /\ \A j \in 2..Len(v) : v[j] # v[1]))

\* the first "lang" has no "=", a later one has: the default is returned
C17_Witness ==
    /\ pc = "lang_extracted"
    /\ Token = DEFAULT_LANG
    /\ LET s == Interior(source_text)
       IN  /\ FirstLang(s) # NONE
           /\ ~HasLangEquals(s)
           /\ \E i \in (FirstLang(s) + 1)..Len(s) : IsAt(s, LANG \o <<"=", "t", "s">>, i)

\* the first "lang" is the end of the name `data-lang`: its value is returned
C17_WitnessDataLang ==
    /\ pc = "lang_extracted"
    /\ Token = <<"t", "s">>
    /\ IsAt(Interior(source_text), <<"d", "a", "t", "a", "-">> \o LANG, 1)

(***************************************************************************)
(* C18: the value read after the first "lang", optional whitespace, "="    *)
(* and optional whitespace: opened by a quote, it is the text up to the    *)
(* next occurrence of that quote, or the default when there is none;       *)
(* opened by another byte, it is the text up to the next whitespace or ">",*)
(* or all the text left when there is none; the default when nothing       *)
(* follows the "=".                                                        *)
(***************************************************************************)
MinOf(S) == CHOOSE j \in S : \A k \in S : j <= k

C18_ValueAfterEquals ==
    (pc = "lang_extracted" /\ HasLangEquals(Interior(source_text))) =>
        LET v == LangValueText(Interior(source_text))
            closing == {j \in 2..Len(v) : v[j] = v[1]}
            stops == {j \in 1..Len(v) : v[j] \in WhiteSpace \cup {">"}}
        IN  IF v = <<>> THEN Token = DEFAULT_LANG
            ELSE IF v[1] \in Quotes
                 THEN IF closing = {} THEN Token = DEFAULT_LANG
                      ELSE Token = SubSeq(v, 2, MinOf(closing) - 1)
                 ELSE IF stops = {} THEN Token = v
                      ELSE Token = SubSeq(v, 1, MinOf(stops) - 1)

\* a value in double quotes that holds a single quote
C18_Witness ==
    /\ pc = "lang_extracted"
    /\ HasLangEquals(Interior(source_text))
    /\ Token = <<"'">>
    /\ Head(LangValueText(Interior(source_text))) = "\""

(***************************************************************************)
(* C19: when the next tag outside comments is a script tag whose ">" is    *)
(* not found before the end of the document, the step ends the scan with   *)
(* the entries collected so far, and no step follows the end of the scan.  *)
(***************************************************************************)
NextIsOpenEnded ==
    LET u == NextOccurrence(source_text, pointer)
    IN  /\ pc = "parse_script"
        /\ u # NONE
        /\ HasScriptName(source_text, u)
        /\ ClosingAngle(source_text, u) = NONE

C19_OpenTagStops ==
    /\ [][NextIsOpenEnded
            => /\ pc' = "done"
               /\ results' = results
               /\ pointer' = NextOccurrence(source_text, pointer) + Len(SCRIPT_START)]_vars
    /\ [][pc # "done"]_vars

\* the scan stopped at a tag left open by a quote, an entry collected
\* before it and a complete block after it
C19_Witness ==
    /\ pc = "done"
    /\ Len(results) = 1
    /\ \E u \in GenuineTags(source_text) :
          /\ ClosingAngle(source_text, u) = NONE
          /\ pointer = u + Len(SCRIPT_START)
          /\ results[1].start < u
          /\ \E v \in ScriptOccurrences(source_text) : v > u /\ IsAt(source_text, BLOCK, v)

(***************************************************************************)
(* C20: the blocks of consecutive entries do not overlap: the opening tag  *)
(* of an entry starts at or after the end of the "</script>" of the entry  *)
(* before it, so its body starts at least Len("<script>") bytes later.     *)
(***************************************************************************)
BlockEnd(r) == r.start + Len(r.source_text) + Len(SCRIPT_END)

C20_BlocksDoNotOverlap ==
    \A i \in 1..(Len(results) - 1) :
        results[i + 1].start >= BlockEnd(results[i]) + Len(OPEN)

\* two entries, the second tag starting right at the end of the first block
C20_Witness ==
    /\ Len(results) >= 2
    /\ results[1].source_text # <<>>
    /\ results[2].start = BlockEnd(results[1]) + Len(OPEN)
    /\ IsAt(source_text, OPEN, BlockEnd(results[1]))

(***************************************************************************)
(* C21: when the next tag outside comments is a script tag whose language  *)
(* the registry does not know, the step pushes nothing and leaves the      *)
(* cursor right after the ">" of that tag, not after its "</script>"; and  *)
(* from that cursor, a terminated script tag with a recognized language    *)
(* that starts inside the body of the dropped block is extracted by the    *)
(* next step.                                                              *)
(***************************************************************************)
NextIsUnrecognized ==
    LET d == NextOccurrence(source_text, pointer)
    IN  /\ pc = "parse_script"
        /\ d # NONE
        /\ HasScriptName(source_text, d)
        /\ ClosingAngle(source_text, d) # NONE
        /\ ~Recognized(source_text, d)

\* the cursor is right after the ">" of the dropped tag d, and the next tag
\* outside comments is a good one that starts before the "</script>" of d
NextIsInDroppedBody(d) ==
    LET c == NextOccurrence(source_text, pointer)
    IN  /\ pc = "parse_script"
        /\ ClosingAngle(source_text, d) # NONE
        /\ ~Recognized(source_text, d)
        /\ pointer = ClosingAngle(source_text, d) + 1
        /\ c # NONE
        /\ BodyEnd(source_text, d) # NONE
        /\ c < BodyEnd(source_text, d)
        /\ HasScriptName(source_text, c)
        /\ ClosingAngle(source_text, c) # NONE
        /\ Recognized(source_text, c)
        /\ BodyEnd(source_text, c) # NONE

C21_DroppedBodyRescanned ==
    /\ [][NextIsUnrecognized
            => /\ pointer' = ClosingAngle(source_text, NextOccurrence(source_text, pointer)) + 1
               /\ results' = results
               /\ pc' = "parse_script"]_vars
    /\ [][\A d \in GenuineTags(source_text) :
              NextIsInDroppedBody(d)
                  => /\ Len(results') = Len(results) + 1
                     /\ results'[Len(results')].start
                          = ClosingAngle(source_text, NextOccurrence(source_text, pointer)) + 1]_vars

\* an entry whose tag starts inside the body of a dropped block
C21_Witness ==
    \E d \in GenuineTags(source_text) :
        /\ ClosingAngle(source_text, d) # NONE
        /\ ~Recognized(source_text, d)
        /\ BodyEnd(source_text, d) # NONE
        /\ \E i \in 1..Len(results) : \E c \in GenuineTags(source_text) :
              /\ ClosingAngle(source_text, d) < c
              /\ c < BodyEnd(source_text, d)
              /\ results[i].start = ClosingAngle(source_text, c) + 1
              /\ results[i].source_text # <<>>

====
